---------------------------- MODULE Spec2Model ----------------------------
(***************************************************************************)
(* Approval workflow of PDL_IMS (src/approvals/models.py and               *)
(* src/approvals/signals.py) as a state machine over the database rows.    *)
(*                                                                         *)
(* State: the workflow and step tables, the rows of the approvals table,   *)
(* the rows of the approval_history table in insertion order, and the last *)
(* call with its outcome.  No modelled operation writes the workflow, step,*)
(* user or role tables.  Calls run one after another, each in autocommit   *)
(* mode: a save() that precedes a failing INSERT stays stored, because     *)
(* none of the modelled functions opens an atomic block.                   *)
(*                                                                         *)
(* Four specifications share the variables, each on the tables of one      *)
(* part of the code with the other tables empty: Spec (approvals),         *)
(* SpecAssets (GRN lines, automatic asset creation, asset assignment),     *)
(* SpecDepreciation (generate_depreciation_schedule) and SpecLocations     *)
(* (the Location hierarchy).                                               *)
(***************************************************************************)
EXTENDS Integers, Sequences, FiniteSets

-----------------------------------------------------------------------------
(* Bounds of the model *)

(* Location rows that can exist *)
MaxLocations == 3

(* Rows the Approval and ApprovalHistory tables hold together *)
MaxRows == 4

-----------------------------------------------------------------------------
(* None for integer columns and for references *)

NoInt == -99

NoRef == "None"

(* Python truthiness of an optional number: None and 0 are falsy *)
Truthy(x) == x # NoInt /\ x # 0

Abs(x) == IF x < 0 THEN -x ELSE x

-----------------------------------------------------------------------------
(* Users and roles *)

Users == {"u1", "u2", "u3"}

(* User.is_active *)
is_active(u) == u \in {"u1", "u3"}

(* UserRole rows (user, role) *)
UserRoles == {<<"u1", "r1">>, <<"u2", "r1">>, <<"u2", "r2">>}

(* BaseModel.created_by holds the UUID of a user, not a User instance *)
UserUUIDs == {"uuid-u1"}

(* The entity types create_approval is called with directly *)
EntityTypes == {"PR", "ISSUE"}

-----------------------------------------------------------------------------
(* Workflow and step tables *)

WorkflowRow(workflow_name, entity_type, active, is_default, deleted, min_value, max_value) ==
  [workflow_name |-> workflow_name, entity_type |-> entity_type, is_active |-> active,
   is_default |-> is_default, deleted |-> deleted, min_value |-> min_value,
   max_value |-> max_value]

StepRow(workflow, step_sequence, approver_role, approver_user, escalation_role, deleted) ==
  [workflow |-> workflow, step_sequence |-> step_sequence, approver_role |-> approver_role,
   approver_user |-> approver_user, escalation_role |-> escalation_role, deleted |-> deleted]

NoStep == StepRow(NoRef, NoInt, NoRef, NoRef, NoRef, FALSE)

(* The database contents the model starts from.  workflows is in Meta.ordering   *)
(* (entity_type, workflow_name); (workflow, step_sequence) is unique among steps *)
Databases ==
  { [workflows |->
       << WorkflowRow("PR-A-LOW",  "PR", TRUE,  FALSE, FALSE, NoInt, 1),
          WorkflowRow("PR-B-HIGH", "PR", TRUE,  TRUE,  FALSE, 2,     NoInt),
          WorkflowRow("PR-C-OLD",  "PR", TRUE,  TRUE,  TRUE,  NoInt, NoInt),
          WorkflowRow("PR-D-OFF",  "PR", FALSE, FALSE, FALSE, NoInt, NoInt) >>,
     steps |->
       { StepRow("PR-A-LOW",  1, "r1", NoRef, NoRef, FALSE),
         StepRow("PR-B-HIGH", 1, "r1", NoRef, NoRef, TRUE),
         StepRow("PR-B-HIGH", 2, "r1", NoRef, "r2",  FALSE) }],
    [workflows |->
       << WorkflowRow("ISSUE-STD", "ISSUE", TRUE, FALSE, FALSE, NoInt, NoInt) >>,
     steps |->
       { StepRow("ISSUE-STD", 1, "r1", NoRef, NoRef, TRUE),
         StepRow("ISSUE-STD", 2, "r1", NoRef, "r2",  FALSE),
         StepRow("ISSUE-STD", 3, "r2", "u1",  NoRef, FALSE) }],
    [workflows |->
       << WorkflowRow("PO-A", "PO", TRUE, FALSE, FALSE, NoInt, 1),
          WorkflowRow("PO-B", "PO", TRUE, FALSE, FALSE, NoInt, NoInt) >>,
     steps |->
       { StepRow("PO-A", 1, "r1", NoRef, NoRef, FALSE),
         StepRow("PO-B", 1, "r1", NoRef, NoRef, FALSE),
         StepRow("PO-B", 2, "r1", "u2",  "r2",  FALSE) }],
    [workflows |->
       << WorkflowRow("ADJ-STD", "ADJUSTMENT", TRUE, FALSE, FALSE, NoInt, 2) >>,
     steps |->
       { StepRow("ADJ-STD", 1, "r1", NoRef, "r2", FALSE) }],
    [workflows |->
       << WorkflowRow("GRN-QC", "GRN", TRUE, TRUE, FALSE, NoInt, NoInt) >>,
     steps |->
       { StepRow("GRN-QC", 0, "r1", NoRef, NoRef, FALSE),
         StepRow("GRN-QC", 1, "r1", NoRef, NoRef, FALSE) }],
    [workflows |->
       << WorkflowRow("TRANSFER-STD", "TRANSFER", TRUE, FALSE, FALSE, NoInt, NoInt) >>,
     steps |-> {}] }

-----------------------------------------------------------------------------
VARIABLES workflows, steps, approvals, history, ret,
          grn_status, grn_lines, assets, asset, schedule, locations

vars == <<workflows, steps, approvals, history, ret,
          grn_status, grn_lines, assets, asset, schedule, locations>>

tables == <<workflows, steps>>

(* The tables of the approvals app *)
approval_tables == <<workflows, steps, approvals, history>>

(* The GRN, GRN line and asset tables *)
asset_tables == <<grn_status, grn_lines, assets>>

(* Each specification below works on the tables of one app and starts the *)
(* other tables empty                                                     *)
NoApprovalTables ==
  workflows = << >> /\ steps = {} /\ approvals = << >> /\ history = << >>

NoAssetTables == grn_status = NoRef /\ grn_lines = {} /\ assets = << >>

(* The asset being depreciated and its AssetDepreciationSchedule rows *)
depreciation_tables == <<asset, schedule>>

NoSchedule == asset = NoRef /\ schedule = << >>

NoLocations == locations = << >>

(* The last call: the operation, the value create_approval was given (NoInt *)
(* for the other operations), and what the call returned or raised         *)
Call(op, value, result) == [op |-> op, value |-> value, result |-> result]

Init ==
  /\ \E db \in Databases : workflows = db.workflows /\ steps = db.steps
  /\ approvals = << >>
  /\ history = << >>
  /\ ret = Call("init", NoInt, NoRef)
  /\ NoAssetTables /\ NoSchedule /\ NoLocations


-----------------------------------------------------------------------------
(* ApprovalWorkflow *)

(* get_steps without the deleted_at filter *)
get_steps_with_deleted(w) == {s \in steps : s.workflow = w}

(* ApprovalWorkflow.get_steps: the non-deleted steps (ordered by step_sequence) *)
get_steps(w) == {s \in steps : s.workflow = w /\ ~s.deleted}

(* first() under the descending order *)
first_descending(rows) ==
  IF rows = {} THEN NoStep
  ELSE CHOOSE s \in rows : \A t \in rows : s.step_sequence >= t.step_sequence

(* QuerySet.first() of steps ordered by step_sequence *)
first(rows) == IF rows = {} THEN NoStep
               ELSE CHOOSE s \in rows : \A t \in rows : s.step_sequence <= t.step_sequence

(* ApprovalWorkflow.applies_to_value *)
applies_to_value(w, value) ==
  IF Truthy(w.min_value) /\ value < w.min_value THEN FALSE
  ELSE IF Truthy(w.max_value) /\ value > w.max_value THEN FALSE
  ELSE TRUE

(* get_approvers without the is_active filter *)
get_approvers_inactive_too(step) ==
  IF step.approver_user # NoRef
    THEN {u \in Users : u = step.approver_user}
  ELSE IF step.approver_role # NoRef
    THEN {u \in Users : <<u, step.approver_role>> \in UserRoles}
  ELSE {}

(* ApprovalWorkflowStep.get_approvers *)
get_approvers(step) ==
  IF step.approver_user # NoRef
    THEN {u \in Users : u = step.approver_user /\ is_active(u)}
  ELSE IF step.approver_role # NoRef
    THEN {u \in Users : <<u, step.approver_role>> \in UserRoles /\ is_active(u)}
  ELSE {}

-----------------------------------------------------------------------------
(* Approval *)

(* Approval.get_current_step: looks the step up among all steps of the workflow *)
get_current_step(a) ==
  IF a.workflow = NoRef \/ ~Truthy(a.current_step_sequence) THEN NoStep
  ELSE first({s \in steps : s.workflow = a.workflow
                            /\ s.step_sequence = a.current_step_sequence})

(* Approval.advance_to_next_step: the approval as saved, and the value returned *)
advance_to_next_step(a) ==
  IF a.workflow = NoRef THEN [approval |-> a, returns |-> FALSE]
  ELSE LET wsteps == get_steps(a.workflow) IN
    IF a.current_step_sequence = NoInt
      THEN LET first_step == first(wsteps) IN
           IF first_step # NoStep
             THEN [approval |-> [a EXCEPT !.current_step_sequence = first_step.step_sequence,
                                          !.status = "IN_PROGRESS"],
                   returns |-> TRUE]
             ELSE [approval |-> a, returns |-> FALSE]
      ELSE LET next_step == first({s \in wsteps : s.step_sequence > a.current_step_sequence}) IN
           IF next_step # NoStep
             THEN [approval |-> [a EXCEPT !.current_step_sequence = next_step.step_sequence],
                   returns |-> TRUE]
             ELSE [approval |-> [a EXCEPT !.status = "APPROVED", !.completed_at = "now"],
                   returns |-> FALSE]

(* An ApprovalHistory row *)
HistoryRow(approval, step_sequence, approver_role, approver_user, action) ==
  [approval |-> approval, step_sequence |-> step_sequence, approver_role |-> approver_role,
   approver_user |-> approver_user, action |-> action]

(* ApprovalHistory.objects.create: step_sequence and approver_user are NOT NULL *)
HistoryInsertOk(row) == row.step_sequence # NoInt /\ row.approver_user # NoRef

-----------------------------------------------------------------------------
(* create_approval *)

Values == {NoInt, 0, 1, 2}

(* The workflows create_approval iterates over, in order *)
CandidateWorkflows(entity_type, value) ==
  LET active == SelectSeq(workflows, LAMBDA w : /\ w.entity_type = entity_type
                                                   /\ w.is_active
                                                   /\ ~w.deleted)
  IN IF Truthy(value) THEN SelectSeq(active, LAMBDA w : applies_to_value(w, value))
     ELSE active

(* The workflow create_approval picks: the first default one, else the first; NoRef if none *)
SelectWorkflow(entity_type, value) ==
  LET found == CandidateWorkflows(entity_type, value)
      defaults == {i \in DOMAIN found : found[i].is_default}
  IN IF defaults # {}
       THEN found[CHOOSE i \in defaults : \A j \in defaults : i <= j].workflow_name
     ELSE IF Len(found) > 0 THEN found[1].workflow_name
     ELSE NoRef

(* Outcome of create_approval: the exception raised, or "ok" with the row stored *)
CreateOutcome(entity_type, entity_id, requested_by, value) ==
  LET workflow == SelectWorkflow(entity_type, value)
      row == [entity_type |-> entity_type, entity_id |-> entity_id, workflow |-> workflow,
              current_step_sequence |-> NoInt, requested_by |-> requested_by,
              status |-> "PENDING", completed_at |-> NoRef]
  IN IF workflow = NoRef THEN [result |-> "ValidationError", row |-> row]
     ELSE IF requested_by \in UserUUIDs THEN [result |-> "ValueError", row |-> row]
     ELSE IF requested_by = NoRef THEN [result |-> "IntegrityError", row |-> row]
     ELSE [result |-> "ok", row |-> advance_to_next_step(row).approval]

EntityIds == {1}

Requesters == {"u1"}

(* The users that reject or cancel *)
Closers == {"u3"}

create_approval(entity_type, entity_id, requested_by, value) ==
  LET out == CreateOutcome(entity_type, entity_id, requested_by, value) IN
  /\ Len(approvals) + Len(history) < MaxRows
  /\ approvals' = IF out.result = "ok" THEN Append(approvals, out.row) ELSE approvals
  /\ UNCHANGED <<tables, history>>
  /\ ret' = Call("create_approval", value, out.result)

-----------------------------------------------------------------------------
(* approve_step *)

(* approve_step writing the history row after advancing *)
approve_step_row_after_advance(a, user) ==
  LET approval == approvals[a]
      current_step == get_current_step(approval)
  IN IF current_step = NoStep \/ user \notin get_approvers(current_step)
       THEN /\ UNCHANGED <<tables, approvals, history>>
            /\ ret' = Call("approve_step", NoInt, "ValidationError")
       ELSE LET adv == advance_to_next_step(approval) IN
            /\ Len(approvals) + Len(history) < MaxRows
            /\ UNCHANGED tables
            /\ approvals' = [approvals EXCEPT ![a] = adv.approval]
            /\ history' = Append(history,
                                 HistoryRow(a, adv.approval.current_step_sequence,
                                            current_step.approver_role, user, "APPROVED"))
            /\ ret' = Call("approve_step", NoInt, IF adv.returns THEN "False" ELSE "True")

approve_step(a, user) ==
  LET approval == approvals[a]
      current_step == get_current_step(approval)
  IN IF current_step = NoStep \/ user \notin get_approvers(current_step)
       THEN /\ UNCHANGED <<tables, approvals, history>>
            /\ ret' = Call("approve_step", NoInt, "ValidationError")
       ELSE LET adv == advance_to_next_step(approval) IN
            /\ Len(approvals) + Len(history) < MaxRows
            /\ UNCHANGED tables
            /\ history' = Append(history,
                                 HistoryRow(a, approval.current_step_sequence,
                                            current_step.approver_role, user, "APPROVED"))
            /\ approvals' = [approvals EXCEPT ![a] = adv.approval]
            /\ ret' = Call("approve_step", NoInt, IF adv.returns THEN "False" ELSE "True")

-----------------------------------------------------------------------------
(* Approval.reject, Approval.cancel, Approval.escalate *)

(* save() of the new status, then the INSERT of the history row *)
CloseApproval(op, a, user, status) ==
  LET approval == approvals[a]
      row == HistoryRow(a, approval.current_step_sequence, NoRef, user, status)
  IN /\ UNCHANGED tables
     /\ approvals' = [approvals EXCEPT ![a] = [approval EXCEPT !.status = status,
                                                               !.completed_at = "now"]]
     /\ IF HistoryInsertOk(row)
          THEN /\ Len(approvals) + Len(history) < MaxRows
               /\ history' = Append(history, row)
               /\ ret' = Call(op, NoInt, "None")
          ELSE /\ history' = history
               /\ ret' = Call(op, NoInt, "IntegrityError")

reject(a, user) == CloseApproval("reject", a, user, "REJECTED")

cancel(a, user) == CloseApproval("cancel", a, user, "CANCELLED")

escalate(a) ==
  LET approval == approvals[a]
      current_step == get_current_step(approval)
      row == HistoryRow(a, approval.current_step_sequence, NoRef, NoRef, "ESCALATED")
  IN IF current_step = NoStep \/ current_step.escalation_role = NoRef
       THEN /\ UNCHANGED <<tables, approvals, history>>
            /\ ret' = Call("escalate", NoInt, "False")
       ELSE /\ UNCHANGED tables
            /\ approvals' = [approvals EXCEPT ![a].status = "ESCALATED"]
            /\ IF HistoryInsertOk(row)
                 THEN /\ Len(approvals) + Len(history) < MaxRows
                      /\ history' = Append(history, row)
                      /\ ret' = Call("escalate", NoInt, "True")
                 ELSE /\ history' = history
                      /\ ret' = Call("escalate", NoInt, "IntegrityError")

-----------------------------------------------------------------------------
(* post_save receivers of approvals/signals.py.  The saved document is the   *)
(* input: no approval operation reads the document tables.                   *)

DocIds == {1}

DocStatuses == {"DRAFT", "SUBMITTED"}

PurchaseRequests ==
  [id : DocIds, status : DocStatuses, requester : {"u1"}, total_estimated_value : {0, 1, 2}]

(* pr_requester: the requester of the source purchase request, NoRef without one *)
PurchaseOrders ==
  [id : DocIds, status : {"SUBMITTED"}, created_by : {NoRef} \cup UserUUIDs,
   pr_requester : {NoRef, "u1"}, grand_total : {1, 2}]

GoodsReceivedNotes ==
  [id : DocIds, status : DocStatuses, received_by : {"u1"}, total_value : {NoInt}]

InventoryAdjustments ==
  [id : DocIds, status : {"SUBMITTED"}, performed_by : {"u1"},
   total_value_impact : {NoInt, -2, -3}]

StockTransfers ==
  [id : DocIds, status : {"SUBMITTED"}, requested_by : {NoRef, "u1"},
   created_by : {NoRef} \cup UserUUIDs]

(* The exists() check counting only the approvals still open *)
ApprovalExistsOpen(entity_type, entity_id) ==
  \E a \in DOMAIN approvals : /\ approvals[a].entity_type = entity_type
                              /\ approvals[a].entity_id = entity_id
                              /\ approvals[a].status \in {"PENDING", "IN_PROGRESS"}

(* Approval.objects.filter(entity_type=..., entity_id=...).exists() *)
ApprovalExists(entity_type, entity_id) ==
  \E a \in DOMAIN approvals : /\ approvals[a].entity_type = entity_type
                              /\ approvals[a].entity_id = entity_id

(* The body the five receivers share *)
AutoCreate(entity_type, entity_id, status, requested_by, value) ==
  IF status # "SUBMITTED"
    THEN /\ UNCHANGED <<tables, approvals, history>>
         /\ ret' = Call("post_save", NoInt, "not submitted")
  ELSE IF ApprovalExists(entity_type, entity_id)
    THEN /\ UNCHANGED <<tables, approvals, history>>
         /\ ret' = Call("post_save", NoInt, "exists")
  ELSE LET out == CreateOutcome(entity_type, entity_id, requested_by, value) IN
       IF out.result = "ok"
         THEN /\ Len(approvals) + Len(history) < MaxRows
              /\ approvals' = Append(approvals, out.row)
              /\ UNCHANGED <<tables, history>>
              /\ ret' = Call("post_save", NoInt, "created")
         ELSE /\ UNCHANGED <<tables, approvals, history>>
              /\ ret' = Call("post_save", NoInt, "failed")

auto_create_pr_approval(instance) ==
  /\ instance \in PurchaseRequests
  /\ AutoCreate("PR", instance.id, instance.status,
             instance.requester, instance.total_estimated_value)

auto_create_po_approval(instance) ==
  /\ instance \in PurchaseOrders
  /\ AutoCreate("PO", instance.id, instance.status,
             IF instance.created_by # NoRef THEN instance.created_by
             ELSE instance.pr_requester,
             instance.grand_total)

auto_create_grn_approval(instance) ==
  /\ instance \in GoodsReceivedNotes
  /\ AutoCreate("GRN", instance.id, instance.status,
             instance.received_by, instance.total_value)

auto_create_adjustment_approval(instance) ==
  /\ instance \in InventoryAdjustments
  /\ AutoCreate("ADJUSTMENT", instance.id, instance.status,
             instance.performed_by,
             IF Truthy(instance.total_value_impact) THEN Abs(instance.total_value_impact)
             ELSE NoInt)

auto_create_transfer_approval(instance) ==
  /\ instance \in StockTransfers
  /\ AutoCreate("TRANSFER", instance.id, instance.status,
             IF instance.requested_by # NoRef THEN instance.requested_by
             ELSE instance.created_by,
             NoInt)

-----------------------------------------------------------------------------
Next ==
  \/ \E t \in EntityTypes, id \in EntityIds, u \in Requesters, v \in Values :
       create_approval(t, id, u, v) /\ UNCHANGED <<asset_tables, depreciation_tables, locations>>
  \/ \E a \in DOMAIN approvals, u \in Users :
       approve_step(a, u) /\ UNCHANGED <<asset_tables, depreciation_tables, locations>>
  \/ \E a \in DOMAIN approvals, u \in Closers :
       reject(a, u) /\ UNCHANGED <<asset_tables, depreciation_tables, locations>>
  \/ \E a \in DOMAIN approvals, u \in Closers :
       cancel(a, u) /\ UNCHANGED <<asset_tables, depreciation_tables, locations>>
  \/ \E a \in DOMAIN approvals :
       escalate(a) /\ UNCHANGED <<asset_tables, depreciation_tables, locations>>
  \/ \E d \in PurchaseRequests :
       auto_create_pr_approval(d) /\ UNCHANGED <<asset_tables, depreciation_tables, locations>>
  \/ \E d \in PurchaseOrders :
       auto_create_po_approval(d) /\ UNCHANGED <<asset_tables, depreciation_tables, locations>>
  \/ \E d \in GoodsReceivedNotes :
       auto_create_grn_approval(d) /\ UNCHANGED <<asset_tables, depreciation_tables, locations>>
  \/ \E d \in InventoryAdjustments :
       auto_create_adjustment_approval(d) /\ UNCHANGED <<asset_tables, depreciation_tables, locations>>
  \/ \E d \in StockTransfers :
       auto_create_transfer_approval(d) /\ UNCHANGED <<asset_tables, depreciation_tables, locations>>

Spec == Init /\ [][Next]_vars

-----------------------------------------------------------------------------
(* Assets: GRN lines, automatic asset creation, assignment                   *)

(* Item master rows: is_serialized and is_asset *)
Items == {"laptop", "scanner", "cable"}

is_serialized(item) == item \in {"laptop", "scanner"}

is_asset(item) == item = "laptop"

(* Python truthiness of an optional string: None and '' are falsy *)
HasText(x) == x # NoRef /\ x # ""

(* User.department *)
department(u) == IF u = "u1" THEN "d1" ELSE NoRef

Departments == {"d1", "d2"}

(* The lines of the goods received note, by id *)
GRNLines ==
  { [id |-> 1, item |-> "laptop",  serial_no |-> "SN1"],
    [id |-> 2, item |-> "scanner", serial_no |-> "SN1"],
    [id |-> 3, item |-> "cable",   serial_no |-> "SN2"],
    [id |-> 4, item |-> "laptop",  serial_no |-> ""] }

(* GoodsReceivedNote.status values a save stores here; SUBMITTED is left to  *)
(* the approvals specification                                               *)
GRNStatuses == {"DRAFT", "ACCEPTED", "POSTED", "REJECTED"}

AssetStatuses == {"IN_STOCK", "ASSIGNED", "IN_REPAIR"}

AssetRow(serial_no, item, current_status, assigned_to_user, assigned_to_department, depreciation_method, useful_life_years) ==
  [serial_no |-> serial_no, item |-> item, current_status |-> current_status,
   assigned_to_user |-> assigned_to_user,
   assigned_to_department |-> assigned_to_department,
   depreciation_method |-> depreciation_method,
   useful_life_years |-> useful_life_years]

(* pre_save receiver of Asset: the row as it is stored *)
validate_asset_assignment(instance) ==
  LET with_department ==
        IF /\ instance.assigned_to_user # NoRef
           /\ instance.assigned_to_department = NoRef
           /\ department(instance.assigned_to_user) # NoRef
          THEN [instance EXCEPT !.assigned_to_department =
                                   department(instance.assigned_to_user)]
          ELSE instance
  IN IF with_department.assigned_to_user # NoRef
        /\ with_department.current_status = "IN_STOCK"
       THEN [with_department EXCEPT !.current_status = "ASSIGNED"]
       ELSE IF with_department.assigned_to_user = NoRef
               /\ with_department.current_status = "ASSIGNED"
              THEN [with_department EXCEPT !.current_status = "IN_STOCK"]
              ELSE with_department

(* Asset.objects.filter(serial_no=...).exists() never finding a row *)
AssetExistsNever(serial_no) == FALSE

(* Asset.objects.filter(serial_no=...).exists() *)
AssetExists(serial_no) ==
  \E i \in DOMAIN assets : assets[i].serial_no = serial_no

(* Asset.objects.create: serial_no is unique in the table *)
AssetInsert(row) ==
  IF \E i \in DOMAIN assets : assets[i].serial_no = row.serial_no
    THEN [assets |-> assets, returns |-> "IntegrityError"]
    ELSE [assets |-> Append(assets, validate_asset_assignment(row)),
          returns |-> "asset"]

create_asset_from_grn_line(grn_line) ==
  IF ~is_serialized(grn_line.item) \/ ~HasText(grn_line.serial_no)
    THEN [assets |-> assets, returns |-> "None"]
    ELSE IF AssetExists(grn_line.serial_no)
           THEN [assets |-> assets, returns |-> "None"]
           ELSE AssetInsert(
                  AssetRow(grn_line.serial_no, grn_line.item, "IN_STOCK", NoRef, NoRef,
                           IF is_asset(grn_line.item) THEN "STRAIGHT_LINE"
                           ELSE "NO_DEPRECIATION",
                           IF is_asset(grn_line.item) THEN 5 ELSE NoInt))

(* post_save receiver of GRNLine *)
auto_create_asset_from_grn(instance) ==
  IF ~is_serialized(instance.item)
    THEN [assets |-> assets, returns |-> "None"]
    ELSE IF ~HasText(instance.serial_no)
           THEN [assets |-> assets, returns |-> "None"]
           ELSE IF grn_status \notin {"ACCEPTED", "POSTED"}
                  THEN [assets |-> assets, returns |-> "None"]
                  ELSE IF AssetExists(instance.serial_no)
                         THEN [assets |-> assets, returns |-> "None"]
                         ELSE create_asset_from_grn_line(instance)

(* GRNLine.save(): the row is stored, then the receiver runs *)
GRNLine_save(line) ==
  LET out == auto_create_asset_from_grn(line) IN
  /\ grn_lines' = grn_lines \cup {line}
  /\ assets' = out.assets
  /\ ret' = Call("GRNLine.save", line.id, out.returns)
  /\ UNCHANGED grn_status

(* create_asset_from_grn_line(line) called for a stored line *)
call_create_asset_from_grn_line(line) ==
  LET out == create_asset_from_grn_line(line) IN
  /\ line \in grn_lines
  /\ assets' = out.assets
  /\ ret' = Call("create_asset_from_grn_line", line.id, out.returns)
  /\ UNCHANGED <<grn_status, grn_lines>>

(* GoodsReceivedNote.save() with a new status; the receiver                  *)
(* update_assets_on_grn_status_change only reports, it writes nothing        *)
update_assets_on_grn_status_change(status) ==
  /\ grn_status' = status
  /\ ret' = Call("GoodsReceivedNote.save", NoInt, status)
  /\ UNCHANGED <<grn_lines, assets>>

(* Asset.save() of an edited asset: the pre_save receiver runs first *)
Asset_save(a, current_status, assigned_to_user, assigned_to_department) ==
  /\ assets' = [assets EXCEPT ![a] =
                  validate_asset_assignment(
                    [@ EXCEPT !.current_status = current_status,
                              !.assigned_to_user = assigned_to_user,
                              !.assigned_to_department = assigned_to_department])]
  /\ ret' = Call("Asset.save", a, "None")
  /\ UNCHANGED <<grn_status, grn_lines>>

assign_to_user(a, user) ==
  /\ assets' = [assets EXCEPT ![a] =
                  validate_asset_assignment(
                    [@ EXCEPT !.assigned_to_user = user,
                              !.assigned_to_department = department(user),
                              !.current_status = "ASSIGNED"])]
  /\ ret' = Call("assign_to_user", a, "None")
  /\ UNCHANGED <<grn_status, grn_lines>>

return_to_stock(a) ==
  /\ assets' = [assets EXCEPT ![a] =
                  validate_asset_assignment(
                    [@ EXCEPT !.assigned_to_user = NoRef,
                              !.assigned_to_department = NoRef,
                              !.current_status = "IN_STOCK"])]
  /\ ret' = Call("return_to_stock", a, "None")
  /\ UNCHANGED <<grn_status, grn_lines>>

(* queryset.update(current_status=...): no save(), no pre_save receiver *)
QuerysetUpdate(op, queryset, current_status) ==
  /\ queryset # {}
  /\ assets' = [i \in DOMAIN assets |->
                  IF i \in queryset
                    THEN [assets[i] EXCEPT !.current_status = current_status]
                    ELSE assets[i]]
  /\ ret' = Call(op, NoInt, "None")
  /\ UNCHANGED <<grn_status, grn_lines>>

mark_as_in_stock(queryset) == QuerysetUpdate("mark_as_in_stock", queryset, "IN_STOCK")

mark_as_in_repair(queryset) == QuerysetUpdate("mark_as_in_repair", queryset, "IN_REPAIR")

InitAssets ==
  /\ NoApprovalTables /\ NoSchedule /\ NoLocations
  /\ grn_status = "DRAFT"
  /\ grn_lines = {}
  /\ assets = << >>
  /\ ret = Call("init", NoInt, NoRef)

NextAssets ==
  \/ \E line \in GRNLines :
       GRNLine_save(line) /\ UNCHANGED <<approval_tables, depreciation_tables, locations>>
  \/ \E line \in GRNLines :
       call_create_asset_from_grn_line(line)
       /\ UNCHANGED <<approval_tables, depreciation_tables, locations>>
  \/ \E status \in GRNStatuses :
       update_assets_on_grn_status_change(status)
       /\ UNCHANGED <<approval_tables, depreciation_tables, locations>>
  \/ \E a \in DOMAIN assets, st \in AssetStatuses, u \in {NoRef, "u1", "u3"},
        d \in {NoRef} \cup Departments :
       Asset_save(a, st, u, d) /\ UNCHANGED <<approval_tables, depreciation_tables, locations>>
  \/ \E a \in DOMAIN assets, u \in {"u1", "u3"} :
       assign_to_user(a, u) /\ UNCHANGED <<approval_tables, depreciation_tables, locations>>
  \/ \E a \in DOMAIN assets :
       return_to_stock(a) /\ UNCHANGED <<approval_tables, depreciation_tables, locations>>
  \/ \E q \in SUBSET DOMAIN assets :
       mark_as_in_stock(q) /\ UNCHANGED <<approval_tables, depreciation_tables, locations>>
  \/ \E q \in SUBSET DOMAIN assets :
       mark_as_in_repair(q) /\ UNCHANGED <<approval_tables, depreciation_tables, locations>>

SpecAssets == InitAssets /\ [][NextAssets]_vars

-----------------------------------------------------------------------------
(* Depreciation schedule                                                     *)

(* Amounts are computed in units of 1/Scale of a cent, standing for the      *)
(* Decimal arithmetic of the loop, and stored in whole cents: the columns    *)
(* of AssetDepreciationSchedule have decimal_places=2                        *)
Scale == 1000

(* Months the schedule of one asset can span *)
MaxMonths == 12

(* n / d for n >= 0, d > 0, rounded to the nearest integer; a tie goes to    *)
(* the even neighbour (ROUND_HALF_EVEN) or away from zero                    *)
RoundDiv(n, d, half_even) ==
  LET q == n \div d
      r == n % d
  IN IF 2 * r > d THEN q + 1
     ELSE IF 2 * r < d THEN q
     ELSE IF half_even /\ q % 2 = 0 THEN q ELSE q + 1

(* The value a DecimalField(decimal_places=2) column holds, in cents: the    *)
(* database adapter quantizes half-even, a numeric column rounds half away   *)
(* from zero                                                                 *)
StoredCents(x, backend) == RoundDiv(x, Scale, backend = "adapter")

Backends == {"adapter", "numeric"}

(* Dates as <<month, day>>; months count from the first purchase month *)
Before(d1, d2) == d1[1] < d2[1] \/ (d1[1] = d2[1] /\ d1[2] < d2[2])

(* None where a date is expected *)
NoDate == << >>

PurchaseDates == {NoDate, <<0, 1>>, <<0, 15>>}

(* purchase_price and salvage_value in cents, NoInt for None *)
PurchasePrices == {NoInt, 100, 250}

SalvageValues == {NoInt, 10, 300}

UsefulLives == {NoInt, 0, 1}

DepreciationMethods == {"STRAIGHT_LINE", "DECLINING_BALANCE", "NO_DEPRECIATION"}

DepreciableAssets ==
  [purchase_date : PurchaseDates, purchase_price : PurchasePrices,
   salvage_value : SalvageValues, useful_life_years : UsefulLives,
   depreciation_method : DepreciationMethods, backend : Backends]

StartDates == {NoDate, <<1, 15>>}

EndDates == {NoDate, <<3, 1>>, <<6, 15>>}

ScheduleRow(period_start_date, opening_book_value, depreciation_amount, closing_book_value) ==
  [period_start_date |-> period_start_date,
   opening_book_value |-> opening_book_value,
   depreciation_amount |-> depreciation_amount,
   closing_book_value |-> closing_book_value]

(* The monthly amount of one pass of the loop, before the salvage cap *)
monthly_depreciation(a, book_value, salvage) ==
  IF a.depreciation_method = "STRAIGHT_LINE"
    THEN RoundDiv(a.purchase_price * Scale - salvage, a.useful_life_years * 12, TRUE)
    ELSE RoundDiv(book_value * 2, a.useful_life_years * 12, TRUE)

(* The monthly amount with the salvage floor applied *)
capped_depreciation(a, book_value, salvage) ==
  IF book_value - monthly_depreciation(a, book_value, salvage) < salvage
    THEN book_value - salvage
    ELSE monthly_depreciation(a, book_value, salvage)

(* Marks a loop that has not ended after fuel passes *)
Running == ScheduleRow(NoInt, 0, 0, 0)

(* The while loop: the rows it hands to get_or_create, in working units;     *)
(* the last element is Running if the loop has not ended after fuel passes   *)
RECURSIVE DepreciationLoop(_, _, _, _, _, _)
DepreciationLoop(a, current_month, end, book_value, salvage, fuel) ==
  IF ~(Before(<<current_month, 1>>, end) /\ book_value > salvage)
    THEN << >>
    ELSE IF fuel = 0
           THEN << Running >>
           ELSE LET amount == capped_depreciation(a, book_value, salvage)
                    closing_book_value == book_value - amount
                IN << ScheduleRow(current_month, book_value, amount, closing_book_value) >>
                   \o DepreciationLoop(a, current_month + 1, end, closing_book_value,
                                       salvage, fuel - 1)

(* get_or_create for each row of the loop: a period that has a row keeps it, *)
(* a new row is stored with every amount quantized to the column's scale     *)
RECURSIVE GetOrCreateAll(_, _, _)
GetOrCreateAll(rows, stored, backend) ==
  IF rows = << >> THEN stored
  ELSE LET row == Head(rows) IN
       IF \E i \in DOMAIN stored : stored[i].period_start_date = row.period_start_date
         THEN GetOrCreateAll(Tail(rows), stored, backend)
         ELSE GetOrCreateAll(
                Tail(rows),
                Append(stored,
                       ScheduleRow(row.period_start_date,
                                   StoredCents(row.opening_book_value, backend),
                                   StoredCents(row.depreciation_amount, backend),
                                   StoredCents(row.closing_book_value, backend))),
                backend)

generate_depreciation_schedule(start_date, end_date) ==
  IF asset.depreciation_method = "NO_DEPRECIATION"
    THEN /\ ret' = Call("generate_depreciation_schedule", 0, "None")
         /\ UNCHANGED depreciation_tables
    ELSE IF asset.purchase_date = NoDate \/ ~Truthy(asset.useful_life_years)
      THEN /\ ret' = Call("generate_depreciation_schedule", 0, "None")
           /\ UNCHANGED depreciation_tables
      ELSE
        LET start == IF start_date # NoDate THEN start_date ELSE asset.purchase_date
            end == IF end_date # NoDate THEN end_date
                   ELSE <<asset.purchase_date[1] + 12 * asset.useful_life_years,
                          asset.purchase_date[2]>>
            salvage == IF Truthy(asset.salvage_value) THEN asset.salvage_value * Scale
                       ELSE 0
        IN IF asset.purchase_price = NoInt /\ Before(<<start[1], 1>>, end)
             THEN /\ ret' = Call("generate_depreciation_schedule", 0, "TypeError")
                  /\ UNCHANGED depreciation_tables
             ELSE LET rows == DepreciationLoop(asset, start[1], end,
                                               asset.purchase_price * Scale, salvage,
                                               MaxMonths + 1)
                  IN /\ schedule' =
                          GetOrCreateAll(SelectSeq(rows, LAMBDA r : r # Running),
                                         schedule, asset.backend)
                     /\ ret' = Call("generate_depreciation_schedule", Len(rows),
                                    IF \E i \in DOMAIN rows : rows[i] = Running
                                      THEN "running" ELSE "None")
                     /\ UNCHANGED asset

InitDepreciation ==
  /\ NoApprovalTables /\ NoAssetTables /\ NoLocations
  /\ asset \in DepreciableAssets
  /\ schedule = << >>
  /\ ret = Call("init", NoInt, NoRef)

NextDepreciation ==
  \E start_date \in StartDates, end_date \in EndDates :
    generate_depreciation_schedule(start_date, end_date)
    /\ UNCHANGED <<approval_tables, asset_tables, locations>>

SpecDepreciation == InitDepreciation /\ [][NextDepreciation]_vars

-----------------------------------------------------------------------------
(* Location hierarchy                                                        *)

LocationIds == 1..MaxLocations

(* clean(): "Location hierarchy cannot exceed 5 levels" *)
MaxDepthLevel == 5

(* _calculate_depth(): `while current and depth < 10` *)
SafetyLimit == 10

LocationRow(parent_location, depth_level) ==
  [parent_location |-> parent_location, depth_level |-> depth_level]

(* Raised by _calculate_depth instead of a depth *)
Circular == -1

(* The walk of _calculate_depth with self.id left out of visited *)
RECURSIVE DepthWalkUnvisited(_, _, _, _)
DepthWalkUnvisited(self, current, visited, depth) ==
  IF current = NoInt \/ depth >= SafetyLimit THEN depth
  ELSE IF current \in visited \ {self} THEN Circular
  ELSE DepthWalkUnvisited(self, locations[current].parent_location,
                          visited \cup {current}, depth + 1)

calculate_depth_unvisited(self, parent_location) ==
  IF parent_location = NoInt THEN 0
  ELSE DepthWalkUnvisited(self, parent_location, {}, 0)

(* The while loop of _calculate_depth: parents are read from the stored rows *)
RECURSIVE DepthWalk(_, _, _)
DepthWalk(current, visited, depth) ==
  IF current = NoInt \/ depth >= SafetyLimit THEN depth
  ELSE IF current \in visited THEN Circular
  ELSE DepthWalk(locations[current].parent_location, visited \cup {current}, depth + 1)

calculate_depth(self, parent_location) ==
  IF parent_location = NoInt THEN 0
  ELSE DepthWalk(parent_location, {self}, 0)

(* full_clean(): the outcome of validating self with the given parent *)
clean(self, parent_location) ==
  IF parent_location # NoInt /\ parent_location \notin DOMAIN locations
    THEN "ValidationError: parent does not exist"
  ELSE IF parent_location # NoInt /\ parent_location = self
    THEN "ValidationError: own parent"
  ELSE IF calculate_depth(self, parent_location) = Circular
    THEN "ValidationError: circular reference"
  ELSE IF calculate_depth(self, parent_location) > MaxDepthLevel
    THEN "ValidationError: depth"
  ELSE "ok"

(* Location.save() of a new or a stored location *)
Location_save(self, parent_location) ==
  /\ ret' = Call("Location.save", self, clean(self, parent_location))
  /\ locations' =
       IF clean(self, parent_location) = "ok"
         THEN [i \in DOMAIN locations \cup {self} |->
                 IF i = self
                   THEN LocationRow(parent_location,
                                    calculate_depth(self, parent_location))
                   ELSE locations[i]]
         ELSE locations

InitLocations ==
  /\ NoApprovalTables /\ NoAssetTables /\ NoSchedule
  /\ locations = << >>
  /\ ret = Call("init", NoInt, NoRef)

NextLocations ==
  \E self \in LocationIds, parent_location \in LocationIds \cup {NoInt} :
    Location_save(self, parent_location)
    /\ UNCHANGED <<approval_tables, asset_tables, depreciation_tables>>

SpecLocations == InitLocations /\ [][NextLocations]_vars

-----------------------------------------------------------------------------
(* Vocabulary of the properties, stated on the tables and not through the    *)
(* operators above                                                           *)

(* The non-deleted steps of workflow w *)
LiveSteps(w) == {s \in steps : s.workflow = w /\ ~s.deleted}

(* The step sequences of LiveSteps(w) *)
LiveSequences(w) == {s.step_sequence : s \in LiveSteps(w)}

(* The steps approval row r is at: those of its workflow with its current sequence *)
StepsAt(r) == {s \in steps : s.workflow = r.workflow
                             /\ s.step_sequence = r.current_step_sequence}

(* u is an eligible approver of step s *)
EligibleFor(u, s) ==
  /\ is_active(u)
  /\ IF s.approver_user # NoRef THEN u = s.approver_user
     ELSE s.approver_role # NoRef /\ <<u, s.approver_role>> \in UserRoles

(* min_value <= v <= max_value, a null bound being open *)
InRange(w, v) == /\ (w.min_value = NoInt \/ w.min_value <= v)
                 /\ (w.max_value = NoInt \/ v <= w.max_value)

(* The positions in the workflow table of the workflows that qualify *)
Qualifying(entity_type, v) ==
  {i \in DOMAIN workflows : /\ workflows[i].entity_type = entity_type
                            /\ workflows[i].is_active
                            /\ ~workflows[i].deleted
                            /\ (v # NoInt => InRange(workflows[i], v))}

(* The history rows of approval a with the given action, by position *)
RowsOf(a, action) == {i \in DOMAIN history : /\ history[i].approval = a
                                              /\ history[i].action = action}

(* The number of approvals of a document *)
ApprovalsOf(rows, entity_type, entity_id) ==
  Cardinality({a \in DOMAIN rows : /\ rows[a].entity_type = entity_type
                                   /\ rows[a].entity_id = entity_id})

Succeeded == ret'.op = "approve_step" /\ ret'.result \in {"True", "False"}

-----------------------------------------------------------------------------
(* C1: over any run of approve_step calls no step of an approval is approved *)
(* twice: an approval never has two APPROVED history rows for the same step. *)
C1_NoStepApprovedTwice ==
  \A i, j \in DOMAIN history :
    (/\ i # j
     /\ history[i].approval = history[j].approval
     /\ history[i].action = "APPROVED"
     /\ history[j].action = "APPROVED")
    => history[i].step_sequence # history[j].step_sequence

(* C2: an approval is APPROVED only if its history holds an APPROVED row for *)
(* every non-deleted step of its workflow, and its APPROVED rows were        *)
(* recorded in ascending step_sequence order.                                *)
C2_ApprovedCoversSteps ==
  \A a \in DOMAIN approvals :
    approvals[a].status = "APPROVED" =>
      /\ \A q \in LiveSequences(approvals[a].workflow) :
           \E i \in RowsOf(a, "APPROVED") : history[i].step_sequence = q
      /\ \A i, j \in RowsOf(a, "APPROVED") :
           i < j => history[i].step_sequence <= history[j].step_sequence

(* An approval of a workflow with two non-deleted steps is APPROVED *)
C2_Witness ==
  \E a \in DOMAIN approvals :
    /\ approvals[a].status = "APPROVED"
    /\ Cardinality(LiveSteps(approvals[a].workflow)) >= 2

(* C3: approve_step succeeds only for an eligible approver of the current    *)
(* step; for any other user, or without a current step, it raises            *)
(* ValidationError and leaves the approval and the history as they were.     *)
C3_Authorization ==
  [][ret'.op = "approve_step" =>
       \A a \in DOMAIN approvals, u \in Users :
         approve_step(a, u) =>
           LET eligible == \E s \in StepsAt(approvals[a]) : EligibleFor(u, s) IN
           /\ Succeeded => eligible
           /\ ~eligible => /\ ret'.result = "ValidationError"
                           /\ approvals' = approvals
                           /\ history' = history]_vars

(* approve_step was refused while an approval sits at a step whose named     *)
(* approver is inactive and whose role an active user holds                  *)
C3_Witness ==
  /\ ret = Call("approve_step", NoInt, "ValidationError")
  /\ \E a \in DOMAIN approvals : \E s \in StepsAt(approvals[a]) :
       /\ s.approver_user # NoRef
       /\ ~is_active(s.approver_user)
       /\ \E u \in Users : is_active(u) /\ <<u, s.approver_role>> \in UserRoles

(* C4: the workflow create_approval attaches is the default one among the    *)
(* active, non-deleted workflows of the entity type whose range contains the *)
(* supplied value, else the first of them; when none qualifies it raises     *)
(* ValidationError and creates no approval.                                  *)
C4_WorkflowSelection ==
  [][\A t \in EntityTypes, id \in EntityIds, u \in Requesters, v \in Values :
       create_approval(t, id, u, v) =>
         LET q == Qualifying(t, v)
             d == {i \in q : workflows[i].is_default}
             pick == IF d # {} THEN CHOOSE i \in d : \A j \in d : i <= j
                     ELSE CHOOSE i \in q : \A j \in q : i <= j
         IN IF q = {}
              THEN ret'.result = "ValidationError" /\ approvals' = approvals
              ELSE /\ ret'.result = "ok"
                   /\ Len(approvals') = Len(approvals) + 1
                   /\ approvals'[Len(approvals')].workflow = workflows[pick].workflow_name]_vars

(* C5: a newly created approval is IN_PROGRESS at the lowest non-deleted     *)
(* step of its workflow, with no history rows and no completed_at; when the  *)
(* workflow has no non-deleted step it is PENDING with no current step.      *)
C5_InitialState ==
  [][ret'.result \in {"ok", "created"} =>
       LET a == Len(approvals')
           r == approvals'[a]
           live == LiveSequences(r.workflow)
       IN /\ a = Len(approvals) + 1
          /\ r.completed_at = NoRef
          /\ \A i \in DOMAIN history' : history'[i].approval # a
          /\ IF live = {}
               THEN r.status = "PENDING" /\ r.current_step_sequence = NoInt
               ELSE /\ r.status = "IN_PROGRESS"
                    /\ r.current_step_sequence \in live
                    /\ \A q \in live : r.current_step_sequence <= q]_vars

(* create_approval returned an approval of a workflow whose lowest step is   *)
(* soft-deleted                                                              *)
C5_Witness ==
  /\ ret.op = "create_approval"
  /\ ret.result = "ok"
  /\ LET r == approvals[Len(approvals)] IN
     /\ r.status = "IN_PROGRESS"
     /\ \E s \in steps : /\ s.workflow = r.workflow
                         /\ s.deleted
                         /\ s.step_sequence < r.current_step_sequence

(* C6: an approval whose status is REJECTED has a REJECTED history row and  *)
(* one whose status is CANCELLED has a CANCELLED history row: the status     *)
(* change and the history row are never observed one without the other.      *)
C6_StatusHasHistoryRow ==
  \A a \in DOMAIN approvals :
    /\ approvals[a].status = "REJECTED" => RowsOf(a, "REJECTED") # {}
    /\ approvals[a].status = "CANCELLED" => RowsOf(a, "CANCELLED") # {}

(* C7: the history only grows: no call changes or removes a row recorded     *)
(* earlier, and a successful approve_step appends exactly one APPROVED row   *)
(* holding the step approved, the acting user and that step's role.          *)
C7_HistoryAppendOnly ==
  [][/\ Len(history') >= Len(history)
     /\ \A i \in DOMAIN history : history'[i] = history[i]
     /\ \A a \in DOMAIN approvals, u \in Users :
          (Succeeded /\ approve_step(a, u)) =>
            \E s \in StepsAt(approvals[a]) :
              history' = Append(history,
                                [approval |-> a,
                                 step_sequence |-> approvals[a].current_step_sequence,
                                 approver_role |-> s.approver_role,
                                 approver_user |-> u,
                                 action |-> "APPROVED"])]_vars

(* approve_step succeeded on an approval that moved on to a later step, with *)
(* an earlier row already in the history                                     *)
C7_Witness ==
  /\ ret = Call("approve_step", NoInt, "False")
  /\ Len(history) >= 2
  /\ history[Len(history)].action = "APPROVED"

(* C8: escalate() on an approval whose current step has an escalation_role   *)
(* sets the status to ESCALATED, appends one ESCALATED row for the current   *)
(* step and returns True; otherwise it returns False and changes nothing.    *)
C8_Escalation ==
  [][\A a \in DOMAIN approvals :
       escalate(a) =>
         IF \E s \in StepsAt(approvals[a]) : s.escalation_role # NoRef
           THEN /\ ret'.result = "True"
                /\ approvals'[a].status = "ESCALATED"
                /\ Len(history') = Len(history) + 1
                /\ history'[Len(history')].approval = a
                /\ history'[Len(history')].action = "ESCALATED"
                /\ history'[Len(history')].step_sequence = approvals[a].current_step_sequence
           ELSE /\ ret'.result = "False"
                /\ approvals' = approvals
                /\ history' = history]_vars

(* The user a creator UUID names *)
UserOf(x) == IF x = "uuid-u1" THEN "u1" ELSE x

(* An active workflow exists for the entity type *)
HasActiveWorkflow(entity_type) ==
  \E i \in DOMAIN workflows : /\ workflows[i].entity_type = entity_type
                              /\ workflows[i].is_active
                              /\ ~workflows[i].deleted

(* After the step an approval of the document exists, requested by the given *)
(* user and positioned at the first step of its workflow                     *)
ApprovalAtFirstStep(entity_type, entity_id, requester) ==
  \E a \in DOMAIN approvals' :
    LET r == approvals'[a]
        live == LiveSequences(r.workflow)
    IN /\ r.entity_type = entity_type
       /\ r.entity_id = entity_id
       /\ r.requested_by = requester
       /\ live # {} => /\ r.current_step_sequence \in live
                       /\ \A q \in live : r.current_step_sequence <= q

(* C9: whenever a document is saved with status SUBMITTED and an active      *)
(* workflow exists for its entity type, then after the save an approval of   *)
(* the document exists, requested by its requester or creator and positioned *)
(* at the workflow's first step.                                             *)
C9_AutoCreation ==
  [][/\ \A d \in PurchaseRequests :
          (auto_create_pr_approval(d) /\ d.status = "SUBMITTED" /\ HasActiveWorkflow("PR"))
          => ApprovalAtFirstStep("PR", d.id, d.requester)
     /\ \A d \in PurchaseOrders :
          (auto_create_po_approval(d) /\ d.status = "SUBMITTED" /\ HasActiveWorkflow("PO"))
          => ApprovalAtFirstStep("PO", d.id,
                                 IF d.created_by # NoRef THEN UserOf(d.created_by)
                                 ELSE d.pr_requester)
     /\ \A d \in GoodsReceivedNotes :
          (auto_create_grn_approval(d) /\ d.status = "SUBMITTED" /\ HasActiveWorkflow("GRN"))
          => ApprovalAtFirstStep("GRN", d.id, d.received_by)
     /\ \A d \in InventoryAdjustments :
          (auto_create_adjustment_approval(d) /\ d.status = "SUBMITTED"
           /\ HasActiveWorkflow("ADJUSTMENT"))
          => ApprovalAtFirstStep("ADJUSTMENT", d.id, d.performed_by)
     /\ \A d \in StockTransfers :
          (auto_create_transfer_approval(d) /\ d.status = "SUBMITTED"
           /\ HasActiveWorkflow("TRANSFER"))
          => ApprovalAtFirstStep("TRANSFER", d.id,
                                 IF d.requested_by # NoRef THEN d.requested_by
                                 ELSE UserOf(d.created_by))]_vars

(* The entity types that have a post_save receiver *)
DocTypes == {"PR", "PO", "GRN", "ADJUSTMENT", "TRANSFER"}

(* C10: a save never gives a document a second approval: a document that has *)
(* an approval, whatever its status, keeps exactly the approvals it had, and *)
(* a document without one gets at most one; documents whose approvals come   *)
(* from saves alone never have two.                                          *)
C10_AtMostOneApproval ==
  [][/\ ret'.op = "post_save" =>
          \A t \in DocTypes, id \in DocIds :
            LET before == ApprovalsOf(approvals, t, id)
                after == ApprovalsOf(approvals', t, id)
            IN IF before >= 1 THEN after = before ELSE after <= 1
     /\ \A t \in DocTypes \ EntityTypes, id \in DocIds :
          ApprovalsOf(approvals', t, id) <= 1]_vars

(* A save found the approval of its document, and every approval there is    *)
(* has been rejected, cancelled or approved                                  *)
C10_Witness ==
  /\ ret = Call("post_save", NoInt, "exists")
  /\ approvals # << >>
  /\ \A a \in DOMAIN approvals :
       approvals[a].status \in {"REJECTED", "CANCELLED", "APPROVED"}

(* A stored line of a serialized item that carries a serial number *)
SerializedLines ==
  {l \in grn_lines : l.item \in {"laptop", "scanner"} /\ l.serial_no \notin {NoRef, ""}}

(* C11: once the goods received note is ACCEPTED or POSTED, an asset exists  *)
(* for every stored line of a serialized item that carries a serial number,  *)
(* whether the line was saved before or after the note reached that status.  *)
C11_AssetsAfterPosting ==
  grn_status \in {"ACCEPTED", "POSTED"} =>
    \A l \in SerializedLines : \E i \in DOMAIN assets : assets[i].serial_no = l.serial_no

(* C12: the line receiver and create_asset_from_grn_line add an asset only   *)
(* for a serialized item with a serial number (the receiver only on an       *)
(* ACCEPTED or POSTED note); when an asset with the serial number exists     *)
(* they return None and add nothing; no two assets share a serial number.    *)
C12_AssetCreationGuard ==
  [][/\ ret'.op \in {"GRNLine.save", "create_asset_from_grn_line"} =>
          \E l \in GRNLines :
            /\ l.id = ret'.value
            /\ \/ assets' = assets
               \/ /\ assets' = Append(assets, assets'[Len(assets')])
                  /\ assets'[Len(assets')].serial_no = l.serial_no
                  /\ l.item \in {"laptop", "scanner"}
                  /\ l.serial_no \notin {NoRef, ""}
                  /\ ret'.op = "GRNLine.save" => grn_status \in {"ACCEPTED", "POSTED"}
            /\ (\E i \in DOMAIN assets : assets[i].serial_no = l.serial_no)
                 => assets' = assets /\ ret'.result = "None"
     /\ \A i, j \in DOMAIN assets' :
          assets'[i].serial_no = assets'[j].serial_no => i = j]_vars

(* A line was saved on a POSTED note while another line's asset already      *)
(* holds its serial number                                                   *)
C12_Witness ==
  /\ ret = Call("GRNLine.save", 2, "None")
  /\ grn_status = "POSTED"
  /\ \E i \in DOMAIN assets : assets[i].serial_no = "SN1" /\ assets[i].item = "laptop"

(* C13: no stored asset is IN_STOCK with a user assigned, none is ASSIGNED   *)
(* without a user, and an asset assigned to a user who has a department has  *)
(* a department.                                                             *)
C13_StatusMatchesAssignment ==
  \A i \in DOMAIN assets :
    /\ ~(assets[i].current_status = "IN_STOCK" /\ assets[i].assigned_to_user # NoRef)
    /\ ~(assets[i].current_status = "ASSIGNED" /\ assets[i].assigned_to_user = NoRef)
    /\ (assets[i].assigned_to_user = "u1") => assets[i].assigned_to_department # NoRef

(* C14: every stored schedule row has closing_book_value equal to           *)
(* opening_book_value minus depreciation_amount, a depreciation_amount that  *)
(* is not negative and a closing_book_value not below the asset's salvage    *)
(* value; nothing is stored for a NO_DEPRECIATION asset or one without       *)
(* purchase_date or useful_life_years, and the loop ends.                    *)
C14_ScheduleArithmetic ==
  /\ \A i \in DOMAIN schedule :
       /\ schedule[i].closing_book_value =
            schedule[i].opening_book_value - schedule[i].depreciation_amount
       /\ schedule[i].depreciation_amount >= 0
       /\ schedule[i].closing_book_value >=
            (IF asset.salvage_value = NoInt THEN 0 ELSE asset.salvage_value)
  /\ schedule # << >> =>
       /\ asset.depreciation_method # "NO_DEPRECIATION"
       /\ asset.purchase_date # << >>
       /\ asset.useful_life_years \notin {NoInt, 0}
  /\ ret.result # "running"

(* The locations reached from i by following parent_location at most n      *)
(* times in the table rows                                                   *)
RECURSIVE AncestorsIn(_, _, _)
AncestorsIn(rows, i, n) ==
  IF n = 0 \/ i \notin DOMAIN rows \/ rows[i].parent_location \notin DOMAIN rows
    THEN {}
    ELSE {rows[i].parent_location}
         \cup AncestorsIn(rows, rows[i].parent_location, n - 1)

(* No location of the table is its own parent or its own ancestor *)
Acyclic(rows) ==
  \A i \in DOMAIN rows : i \notin AncestorsIn(rows, i, Cardinality(DOMAIN rows))

(* C15: after every Location save no location is its own parent or its own   *)
(* ancestor; a save that would make a location its own parent or ancestor    *)
(* raises ValidationError and leaves the table as it was.                    *)
C15_LocationsAcyclic ==
  [][ret'.op = "Location.save" =>
       /\ Acyclic(locations')
       /\ \A l \in LocationIds, p \in LocationIds :
            (Location_save(l, p)
             /\ (p = l \/ l \in AncestorsIn(locations, p, Cardinality(DOMAIN locations))))
            => /\ ret'.result \in {"ValidationError: own parent",
                                   "ValidationError: circular reference",
                                   "ValidationError: parent does not exist",
                                   "ValidationError: depth"}
               /\ locations' = locations]_vars

(* A save that would have closed a cycle through three locations was refused *)
C15_Witness ==
  /\ ret.op = "Location.save"
  /\ ret.result = "ValidationError: circular reference"
  /\ \E i \in DOMAIN locations : locations[i].depth_level >= 2

=============================================================================
